---------------------------- MODULE Spec2Model ----------------------------
(***************************************************************************)
(* Auto-memory filter of openwebui-extras (src/functions/auto-memory.py).  *)
(*                                                                         *)
(* The module models one Filter instance, the host's Memories table and    *)
(* Users registry it calls into, and the completion endpoint whose answers *)
(* drive the memory operations.  Python values are represented as follows: *)
(*   - a str that the code splits, joins or formats is a sequence of       *)
(*     tokens (each token a TLA+ string that holds no ',' and no ']');     *)
(*   - an Optional value is a record [some, v];                            *)
(*   - a parsed JSON array item is a record [isdict, keys, operation, id,  *)
(*     content, tags], keys being the keys the JSON object carries;        *)
(*   - a call that may raise yields a record [raised, value].              *)
(***************************************************************************)
EXTENDS Naturals, Sequences, FiniteSets, TLC

VARIABLES
    Memories,          \* host table: memory id -> [user_id, content]
    nextId,            \* host id generator: index of the next fresh id
    valves,            \* Filter.valves
    stored_memories,   \* Filter.stored_memories (Optional list of dicts)
    pc,                \* position of the hook invocation in flight
    body,              \* request body of the invocation in flight
    user_arg,          \* __user__ of the invocation in flight
    user,              \* result of Users.get_user_by_id
    relevant_memories, \* local of _process_user_message
    memories,          \* local of _process_user_message
    memory_context,    \* local of _process_user_message
    idx,               \* loop position of process_memories (1-based)
    calls,             \* storage calls made by the invocation in flight
    obs,               \* what the invocation in flight observed and produced
    ret,               \* outcome of the last hook invocation that returned
    Action_valves,     \* Action.valves (add-memories.py)
    Pipe_valves,       \* Pipe.valves (thinking-claude.py), None until the host sets it
    emitted,           \* events the last entry-point call got through __event_emitter__
    entry,             \* outcome of the last call of an emitting entry point
    suspended          \* the turn that waits while the host runs the turn in flight

vars == <<Memories, nextId, valves, stored_memories, pc, body, user_arg, user,
          relevant_memories, memories, memory_context, idx, calls, obs, ret,
          Action_valves, Pipe_valves, emitted, entry, suspended>>

\* what a step of the filter invocation in flight leaves alone: the plugins
\* other than the auto-memory filter, and the turn that is waiting
OtherPlugins == <<Action_valves, Pipe_valves, emitted, entry, suspended>>

\* state of the auto-memory filter and of its invocation in flight
FilterState == <<valves, stored_memories, pc, body, user_arg, user, relevant_memories,
                 memories, memory_context, idx, calls, obs, ret>>

----------------------------------------------------------------------------
(* Bounds of the model. *)

\* Longest array the completion endpoint returns.
MaxOps == 2

----------------------------------------------------------------------------
(* Python values. *)

None == [some |-> FALSE, v |-> <<>>]
Some(x) == [some |-> TRUE, v |-> x]
NoneStr == [some |-> FALSE, v |-> ""]

\* Python truthiness of an Optional[str] held as a string / as tokens.
TruthyStr(o) == o.some /\ o.v # ""
TruthyTokens(o) == o.some /\ o.v # <<>>

Return(x) == [raised |-> FALSE, value |-> x]
Raise == [raised |-> TRUE, value |-> <<>>]

RECURSIVE Join(_, _)
\* sep.join(parts), each part a token sequence
Join(parts, sep) ==
    IF parts = <<>> THEN <<>>
    ELSE IF Len(parts) = 1 THEN parts[1]
    ELSE parts[1] \o sep \o Join(Tail(parts), sep)

RECURSIVE SeqsUpTo(_, _)
\* all sequences over S of length <= n
SeqsUpTo(S, n) ==
    IF n = 0 THEN {<<>>}
    ELSE LET shorter == SeqsUpTo(S, n - 1)
         IN shorter \cup {Append(s, x) : s \in shorter, x \in S}

----------------------------------------------------------------------------
(* JSON objects of the model's array. *)

KeyNames == {"operation", "id", "content", "tags"}

\* a JSON object carrying the keys ks
Obj(ks, op, i, c, t) ==
    [isdict |-> TRUE, keys |-> ks, operation |-> op, id |-> i, content |-> c, tags |-> t]

\* an array item that is no JSON object (a number, a string, null)
NonObj == [isdict |-> FALSE, keys |-> {}, operation |-> "", id |-> NoneStr,
           content |-> None, tags |-> <<>>]

OpNew(c, t) == Obj({"operation", "content", "tags"}, "NEW", NoneStr, c, t)
OpUpdate(i, c, t) == Obj({"operation", "id", "content", "tags"}, "UPDATE", i, c, t)
OpDelete(i) == Obj({"operation", "id"}, "DELETE", i, None, <<>>)

\* dict.get-like reads of an item: a missing key reads as the field default
ItemId(d) == IF "id" \in d.keys THEN d.id ELSE NoneStr
ItemContent(d) == IF "content" \in d.keys THEN d.content ELSE None
ItemTags(d) == IF "tags" \in d.keys THEN d.tags ELSE <<>>

----------------------------------------------------------------------------
(* Host side: Users registry, Memories table, completion endpoint. *)

\* ids of the users the host knows (Users.get_user_by_id finds them)
Users == {"u1", "u2"}

\* ids the host's generator hands out, in order; a uuid is never handed out twice
FreshIds == <<"n1", "n2">>

T_TAGS == "[Tags:"
T_CLOSE == "]"
T_COMMA == ","
T_SP == " "

\* tokens of the model in the order Python compares the strings they stand for
TokenOrder == <<T_SP, T_COMMA, "Food", "None", T_TAGS, T_CLOSE, "drink", "food", "likes tea",
                "lives in London", "lives in Paris", "location", "see">>

TokenRank(t) == CHOOSE i \in 1..Len(TokenOrder) : TokenOrder[i] = t

\* str.lower() of one token
Lower(t) == IF t = "Food" THEN "food" ELSE t

\* a tag the model may return that holds a comma
TAG_FOOD_DRINK == "food,drink"

\* the tokens of the str of one tag
TagTokens(t) == IF t = TAG_FOOD_DRINK THEN <<"food", T_COMMA, "drink">> ELSE <<t>>

\* Memories.insert_new_memory(user_id, content): a record under a fresh id
insert_new_memory(M, n, uid, c) ==
    [i \in DOMAIN M \cup {FreshIds[n]} |->
        IF i = FreshIds[n] THEN [user_id |-> uid, content |-> c] ELSE M[i]]

\* Memories.get_memory_by_id(id): the record, or None
get_memory_by_id(M, i) == IF i \in DOMAIN M THEN Some(M[i]) ELSE [some |-> FALSE, v |-> <<>>]

\* Memories.delete_memory_by_id(id): the table without the record
delete_memory_by_id(M, i) == [j \in DOMAIN M \ {i} |-> M[j]]

\* Memories.get_memories_by_user_id(user_id): ids of the user's records
get_memories_by_user_id(M, uid) == {i \in DOMAIN M : M[i].user_id = uid}

----------------------------------------------------------------------------
(* MemoryOperation and the pure helpers of Filter. *)

OperationLiteral == {"NEW", "UPDATE", "DELETE"}

\* MemoryOperation.validate_fields without the content requirement
validate_fields_no_content(o) ==
    ~(o.operation \in {"UPDATE", "DELETE"} /\ ~TruthyStr(o.id))

\* MemoryOperation.validate_fields: TRUE when no ValueError is raised
validate_fields(o) ==
    /\ ~(o.operation \in {"UPDATE", "DELETE"} /\ ~TruthyStr(o.id))
    /\ ~(o.operation \in {"NEW", "UPDATE"} /\ ~TruthyTokens(o.content))

\* MemoryOperation(**memory_dict): the model instance, or a ValidationError
MemoryOperation(d) ==
    LET o == [operation |-> d.operation, id |-> ItemId(d),
              content |-> ItemContent(d), tags |-> ItemTags(d)]
    IN IF "operation" \notin d.keys \/ d.operation \notin OperationLiteral THEN Raise
       ELSE IF ~validate_fields(o) THEN Raise
       ELSE Return(o)

\* Filter._validate_memory_operation
_validate_memory_operation(op) ==
    IF ~op.isdict THEN FALSE
    ELSE IF "operation" \notin op.keys THEN FALSE
    ELSE IF op.operation \notin OperationLiteral THEN FALSE
    ELSE IF op.operation \in {"UPDATE", "DELETE"} /\ "id" \notin op.keys THEN FALSE
    ELSE IF op.operation \in {"NEW", "UPDATE"} /\ "content" \notin op.keys THEN FALSE
    ELSE TRUE

\* Filter._format_memory_content
_format_memory_content(operation) ==
    IF operation.tags = <<>>
    THEN (IF TruthyTokens(operation.content) THEN operation.content.v ELSE <<>>)
    ELSE <<T_TAGS, T_SP>>
         \o Join([k \in 1..Len(operation.tags) |-> TagTokens(operation.tags[k])],
                 <<T_COMMA, T_SP>>)
         \o <<T_CLOSE, T_SP>>
         \o (IF operation.content.some THEN operation.content.v ELSE <<"None">>)

----------------------------------------------------------------------------
(* Completion endpoint and response interpretation. *)

\* The text a completion carries: not JSON at all, a JSON value that is no
\* array, a JSON array of items, or a null content (t = "none").
NotJsonText == [t |-> "notjson", isList |-> FALSE, items |-> <<>>]
NonArrayText == [t |-> "json", isList |-> FALSE, items |-> <<>>]
NullText == [t |-> "none", isList |-> FALSE, items |-> <<>>]
ArrayText(items) == [t |-> "json", isList |-> TRUE, items |-> items]

\* What generate_chat_completion does: raises, answers with a dict or a
\* JSONResponse (both carrying a text), or answers with another type.
Completion(kind, text) == [kind |-> kind, text |-> text]
NetworkError == Completion("raise", NullText)
OtherType == Completion("other", NullText)

\* Filter.query_openai_api: the content, or the normalized 'API Error'
query_openai_api(c) ==
    IF c.kind = "raise" THEN Raise
    ELSE IF c.kind \in {"JSONResponse", "dict"} THEN Return(c.text)
    ELSE Raise

\* json.loads(response.strip()): JSONDecodeError unless the text is JSON
json_loads(text) ==
    IF text.t = "json" THEN Return([isList |-> text.isList, items |-> text.items])
    ELSE Raise

\* identify_memories discarding the whole batch when one item is invalid
ValidOperations_all_or_nothing(items) ==
    IF \A i \in 1..Len(items) : _validate_memory_operation(items[i]) THEN items ELSE <<>>

\* the list comprehension building its result back to front
ValidOperations_reversed(items) ==
    LET F[i \in 0..Len(items)] ==
            IF i = 0 THEN <<>>
            ELSE IF _validate_memory_operation(items[i]) THEN <<items[i]>> \o F[i - 1]
            ELSE F[i - 1]
    IN F[Len(items)]

\* the list comprehension of identify_memories
ValidOperations(items) ==
    LET F[i \in 0..Len(items)] ==
            IF i = 0 THEN <<>>
            ELSE IF _validate_memory_operation(items[i]) THEN Append(F[i - 1], items[i])
            ELSE F[i - 1]
    IN F[Len(items)]

\* identify_memories whose handlers catch json.JSONDecodeError only
identify_memories_decode_only(v, c) ==
    IF v.model = "" THEN Return(<<>>)
    ELSE LET response == query_openai_api(c)
         IN IF response.raised THEN Raise
            ELSE IF response.value.t = "none" THEN Raise
            ELSE LET memory_operations == json_loads(response.value)
                 IN IF memory_operations.raised THEN Return(<<>>)
                    ELSE IF ~memory_operations.value.isList THEN Return(<<>>)
                    ELSE Return(ValidOperations(memory_operations.value.items))

\* Filter.identify_memories on the completion c, under valves v
identify_memories(v, c) ==
    IF v.model = "" THEN Return(<<>>)
    ELSE LET response == query_openai_api(c)
         IN IF response.raised THEN Return(<<>>)                 \* except Exception
            ELSE IF response.value.t = "none" THEN Return(<<>>)  \* None.strip(): except Exception
            ELSE LET memory_operations == json_loads(response.value)
                 IN IF memory_operations.raised THEN Return(<<>>) \* except JSONDecodeError
                    ELSE IF ~memory_operations.value.isList THEN Return(<<>>)
                    ELSE Return(ValidOperations(memory_operations.value.items))

----------------------------------------------------------------------------
(* Tag convention and relevance retrieval. *)

RECURSIVE BeforeFirst(_, _)
\* content.split(tok)[0]
BeforeFirst(c, tok) ==
    IF c = <<>> \/ Head(c) = tok THEN <<>>
    ELSE <<Head(c)>> \o BeforeFirst(Tail(c), tok)

\* content.replace(tok, "")
Remove(c, tok) == SelectSeq(c, LAMBDA t : t # tok)

RECURSIVE Split(_, _)
\* content.split(tok): the pieces between the occurrences of tok
Split(c, tok) ==
    LET first == BeforeFirst(c, tok)
    IN IF Len(first) = Len(c) THEN <<first>>
       ELSE <<first>> \o Split(SubSeq(c, Len(first) + 2, Len(c)), tok)

RECURSIVE LStrip(_)
LStrip(c) == IF c # <<>> /\ Head(c) = T_SP THEN LStrip(Tail(c)) ELSE c

RECURSIVE RStrip(_)
RStrip(c) == IF c # <<>> /\ c[Len(c)] = T_SP THEN RStrip(SubSeq(c, 1, Len(c) - 1)) ELSE c

RECURSIVE LowerStr(_)
\* the str a stripped piece stands for, lower-cased
LowerStr(c) == IF c = <<>> THEN "" ELSE Lower(Head(c)) \o LowerStr(Tail(c))

\* Filter._parse_memory_tags
_parse_memory_tags(content) ==
    IF \E k \in 1..Len(content) : content[k] = T_TAGS
    THEN LET tag_part == Remove(BeforeFirst(content, T_CLOSE), T_TAGS)
             pieces == Split(tag_part, T_COMMA)
         IN [k \in 1..Len(pieces) |-> LowerStr(RStrip(LStrip(pieces[k])))]
    ELSE <<>>

Range(f) == {f[k] : k \in DOMAIN f}

\* Filter._get_all_memory_tags
_get_all_memory_tags(M, uid) ==
    UNION {Range(_parse_memory_tags(M[i].content)) : i \in get_memories_by_user_id(M, uid)}

\* The text of a tag-selection completion: a JSON object with relevant_tags,
\* a JSON value that is no object, or no JSON.
TagText(tags) == [t |-> "json", isDict |-> TRUE, relevant_tags |-> tags]
TagNotDict == [t |-> "json", isDict |-> FALSE, relevant_tags |-> <<>>]
TagNotJson == [t |-> "notjson", isDict |-> FALSE, relevant_tags |-> <<>>]

\* Filter._get_relevant_tags_for_query on the completion c
_get_relevant_tags_for_query(c) ==
    LET response == query_openai_api(c)
    IN IF response.raised THEN <<>>
       ELSE IF response.value.t # "json" THEN <<>>
       ELSE IF ~response.value.isDict THEN <<>>
       ELSE [k \in 1..Len(response.value.relevant_tags) |->
                Lower(response.value.relevant_tags[k])]

RECURSIVE LexLess(_, _)
\* a < b for the strings the token sequences stand for
LexLess(a, b) ==
    IF b = <<>> THEN FALSE
    ELSE IF a = <<>> THEN TRUE
    ELSE IF Head(a) # Head(b) THEN TokenRank(Head(a)) < TokenRank(Head(b))
    ELSE LexLess(Tail(a), Tail(b))

\* order in which the host lists records
IdOrder == <<"m1", "m2", "m3", "m4", "m5", "m6", "m7">> \o FreshIds
IdRank(i) == CHOOSE k \in 1..Len(IdOrder) : IdOrder[k] = i

\* score of get_relevant_memories: len(set(mem_tags) & set(relevant_tags))
Score(M, i, relevant_tags) ==
    Cardinality(Range(_parse_memory_tags(M[i].content)) \cap Range(relevant_tags))

\* the sort key without the score
SortsBefore_content_only(M, rt, a, b) ==
    \/ LexLess(M[a].content, M[b].content)
    \/ M[a].content = M[b].content /\ IdRank(a) < IdRank(b)

\* sorted(..., key=lambda x: (-x[1], x[0])): does record a come before record b
SortsBefore(M, rt, a, b) ==
    \/ Score(M, a, rt) > Score(M, b, rt)
    \/ /\ Score(M, a, rt) = Score(M, b, rt)
       /\ \/ LexLess(M[a].content, M[b].content)
          \/ M[a].content = M[b].content /\ IdRank(a) < IdRank(b)

RECURSIVE SortedIds(_, _, _)
SortedIds(M, rt, S) ==
    IF S = {} THEN <<>>
    ELSE LET first == CHOOSE a \in S : \A b \in S \ {a} : SortsBefore(M, rt, a, b)
         IN <<first>> \o SortedIds(M, rt, S \ {first})

\* The try block of get_relevant_memories for user u (Optional user id), the
\* tag completion c, and f the number of the storage listing that raises
\* (0: none): the list it returns, or the exception that leaves it.
get_relevant_memories_try(M, v, u, c, f) ==
    IF ~u.some THEN Raise                      \* user.id on None
    ELSE IF f = 1 THEN Raise                   \* listing raises in _get_all_memory_tags
    ELSE IF _get_all_memory_tags(M, u.v) = {} THEN Return(<<>>)
    ELSE LET relevant_tags == _get_relevant_tags_for_query(c)
             sorted_memories == SortedIds(M, relevant_tags, get_memories_by_user_id(M, u.v))
             positive == SelectSeq(sorted_memories, LAMBDA i : Score(M, i, relevant_tags) > 0)
             contents == [k \in 1..Len(positive) |-> M[positive[k]].content]
         IN IF f = 2 THEN Raise                \* listing raises while scoring
            ELSE Return(SubSeq(contents, 1, IF Len(contents) < v.related_memories_n
                                            THEN Len(contents) ELSE v.related_memories_n))

\* get_relevant_memories without its exception handler
get_relevant_memories_unguarded(M, v, u, c, f) == get_relevant_memories_try(M, v, u, c, f)

\* Filter.get_relevant_memories: except Exception returns []
get_relevant_memories(M, v, u, c, f) ==
    LET r == get_relevant_memories_try(M, v, u, c, f)
    IN IF r.raised THEN Return(<<>>) ELSE r

\* does get_relevant_memories reach the tag-selection completion call
TagCompletionCalled(M, u, f) ==
    u.some /\ f # 1 /\ _get_all_memory_tags(M, u.v) # {}

\* the tag-selection completion call or the parse of its answer raises
TagQueryFailed(c) ==
    LET response == query_openai_api(c)
    IN response.raised \/ response.value.t # "json" \/ ~response.value.isDict

\* the local relevant_tags get_relevant_memories ranks with ([] when it did
\* not get that far or gave up)
RelevantTags(M, u, c, f) ==
    IF TagCompletionCalled(M, u, f) /\ f # 2 THEN _get_relevant_tags_for_query(c) ELSE <<>>

\* an exception was raised and handled somewhere in get_relevant_memories
RelevanceFailed(M, u, c, f) ==
    \/ ~u.some
    \/ f = 1
    \/ TagCompletionCalled(M, u, f) /\ (f = 2 \/ TagQueryFailed(c))

----------------------------------------------------------------------------
(* Applying one operation against the host table. *)

\* One storage call of the invocation in flight, as logged in calls.
Call(i, fn, id, uid, c, ok) ==
    [op |-> i, fn |-> fn, id |-> id, user_id |-> uid, content |-> c, ok |-> ok]

\* Progress of _execute_memory_operation: the table, the id generator, the
\* calls made so far and whether one of them raised.
Progress(M, n) == [M |-> M, n |-> n, calls |-> <<>>, raised |-> FALSE]

\* Memories.get_memory_by_id as the k-th call; f is the call that raises
DoGet(st, i, id, k, f) ==
    IF st.raised THEN st
    ELSE [st EXCEPT !.calls = Append(@, Call(i, "get", id, "", <<>>, f # k)),
                    !.raised = (f = k)]

\* Memories.delete_memory_by_id as the k-th call
DoDelete(st, i, id, k, f) ==
    IF st.raised THEN st
    ELSE IF f = k
    THEN [st EXCEPT !.calls = Append(@, Call(i, "delete", id, "", <<>>, FALSE)),
                    !.raised = TRUE]
    ELSE [st EXCEPT !.calls = Append(@, Call(i, "delete", id, "", <<>>, TRUE)),
                    !.M = delete_memory_by_id(@, id)]

\* Memories.insert_new_memory as the k-th call; the host raises when it has
\* no id left to hand out
DoInsert(st, i, uid, c, k, f) ==
    IF st.raised THEN st
    ELSE IF f = k \/ st.n > Len(FreshIds)
    THEN [st EXCEPT !.calls = Append(@, Call(i, "insert", "", uid, c, FALSE)),
                    !.raised = TRUE]
    ELSE [st EXCEPT !.calls = Append(@, Call(i, "insert", FreshIds[st.n], uid, c, TRUE)),
                    !.M = insert_new_memory(@, st.n, uid, c),
                    !.n = @ + 1]

\* UPDATE that inserts the new record before it deletes the old one
ExecUpdate_insert_first(st, i, operation, uid, f) ==
    LET c == _format_memory_content(operation)
        s1 == DoGet(st, i, operation.id.v, 1, f)
        s2 == DoInsert(s1, i, uid, c, 2, f)
    IN IF operation.id.v \in DOMAIN st.M THEN DoDelete(s2, i, operation.id.v, 3, f) ELSE s2

\* the UPDATE branch of _execute_memory_operation
ExecUpdate(st, i, operation, uid, f) ==
    LET c == _format_memory_content(operation)
        s1 == DoGet(st, i, operation.id.v, 1, f)
        old_memory == get_memory_by_id(st.M, operation.id.v)
    IN IF old_memory.some
       THEN DoInsert(DoDelete(s1, i, operation.id.v, 2, f), i, uid, c, 3, f)
       ELSE DoInsert(s1, i, uid, c, 2, f)

\* DELETE that clears the user's whole table when the id is unknown
ExecDelete_wipe(st, i, operation, uid, f) ==
    IF operation.id.v \in DOMAIN st.M THEN DoDelete(st, i, operation.id.v, 1, f)
    ELSE [st EXCEPT !.calls = Append(@, Call(i, "delete", operation.id.v, "", <<>>, TRUE)),
                    !.M = [j \in {x \in DOMAIN st.M : st.M[x].user_id # uid} |-> st.M[j]]]

\* the DELETE branch of _execute_memory_operation
ExecDelete(st, i, operation, uid, f) ==
    DoDelete(st, i, operation.id.v, 1, f)

\* Filter._execute_memory_operation for the i-th item of the batch, acting
\* user uid; f is the number of the storage call that raises (0: none)
_execute_memory_operation(M, n, i, operation, uid, f) ==
    LET st == Progress(M, n)
    IN IF operation.operation = "NEW"
       THEN DoInsert(st, i, uid, _format_memory_content(operation), 1, f)
       ELSE IF operation.operation = "UPDATE" /\ TruthyStr(operation.id)
       THEN ExecUpdate(st, i, operation, uid, f)
       ELSE IF operation.operation = "DELETE" /\ TruthyStr(operation.id)
       THEN ExecDelete(st, i, operation, uid, f)
       ELSE st

\* One turn of the loop of process_memories on item i: "continue" (the
\* item is no valid MemoryOperation), "applied", or "failed" (an exception
\* reached the outer handler, which returns False).
LoopTurn(M, n, i, memory_dict, uid, f) ==
    LET operation == MemoryOperation(memory_dict)
        st == _execute_memory_operation(M, n, i, operation.value, uid, f)
    IN IF operation.raised
       THEN [outcome |-> "continue", M |-> M, n |-> n, calls |-> <<>>]
       ELSE [outcome |-> IF st.raised THEN "failed" ELSE "applied",
             M |-> st.M, n |-> st.n, calls |-> st.calls]

----------------------------------------------------------------------------
(* Request bodies, user identities, message context. *)

Msg(role, content) == [role |-> role, content |-> content]

\* body kinds: "none" (missing), "nondict" (a non-empty str), "dict"; a dict
\* has a "messages" key or not, and other keys or not
Body(kind, has_messages, other, messages) ==
    [kind |-> kind, has_messages |-> has_messages, other |-> other, messages |-> messages]
NoBody == Body("none", FALSE, FALSE, <<>>)
StrBody == Body("nondict", FALSE, FALSE, <<>>)
DictBody(messages) == Body("dict", TRUE, TRUE, messages)

\* bool(body)
BodyTruthy(b) == b.kind = "nondict" \/ (b.kind = "dict" /\ (b.has_messages \/ b.other))

\* __user__: None, or a dict with or without an "id"
UserDict(id) == [given |-> TRUE, has_id |-> TRUE, id |-> id]
NoUser == [given |-> FALSE, has_id |-> FALSE, id |-> ""]
UserWithoutId == [given |-> TRUE, has_id |-> FALSE, id |-> ""]

\* Users.get_user_by_id: the user (held as its id), or None
get_user_by_id(id) == IF id \in Users THEN Some(id) ELSE NoneStr

\* str(memory_dict) of one stored operation
ReprItem(d) ==
    <<"{", "operation:", d.operation>>
    \o (IF "id" \in d.keys THEN <<"id:", IF d.id.some THEN d.id.v ELSE "None">> ELSE <<>>)
    \o (IF "content" \in d.keys
        THEN <<"content:">> \o (IF d.content.some THEN d.content.v ELSE <<"None">>)
        ELSE <<>>)
    \o (IF "tags" \in d.keys THEN <<"tags:">> \o d.tags ELSE <<>>)
    \o <<"}">>

\* "\nRecently stored memory: " + str(memories)
StoredContext(ms) ==
    <<"\nRecently stored memory: ">>
    \o Join([k \in 1..Len(ms) |-> ReprItem(ms[k])], <<T_COMMA, T_SP>>)

\* "\nRelevant memories for current context:\n" + "\n".join(f"- {mem}" ...)
RelevantContext(rel) ==
    <<"\nRelevant memories for current context:\n">>
    \o Join([k \in 1..Len(rel) |-> <<"- ">> \o rel[k]], <<"\n">>)

\* _update_message_context that always inserts a new system message
_update_message_context_always_insert(b, ctx, rel) ==
    IF ctx = <<>> /\ rel = <<>> THEN b
    ELSE LET context == ctx \o (IF rel # <<>> THEN RelevantContext(rel) ELSE <<>>)
         IN IF ~b.has_messages THEN b
            ELSE [b EXCEPT !.messages = <<Msg("system", context)>> \o @]

\* _update_message_context that returns early whenever nothing was stored
_update_message_context_needs_log(b, ctx, rel) ==
    IF ctx = <<>> THEN b
    ELSE LET context == ctx \o (IF rel # <<>> THEN RelevantContext(rel) ELSE <<>>)
         IN IF ~b.has_messages THEN b
            ELSE IF b.messages # <<>> /\ b.messages[1].role = "system"
            THEN [b EXCEPT !.messages[1].content = @ \o context]
            ELSE [b EXCEPT !.messages = <<Msg("system", context)>> \o @]

\* Filter._update_message_context: the body after the call
_update_message_context(b, ctx, rel) ==
    IF ctx = <<>> /\ rel = <<>> THEN b
    ELSE LET context == ctx \o (IF rel # <<>> THEN RelevantContext(rel) ELSE <<>>)
         IN IF ~b.has_messages THEN b
            ELSE IF b.messages # <<>> /\ b.messages[1].role = "system"
            THEN [b EXCEPT !.messages[1].content = @ \o context]
            ELSE [b EXCEPT !.messages = <<Msg("system", context)>> \o @]

\* the confirmation outlet builds from stored_memories
Confirmation(ms) ==
    LET F[k \in 0..Len(ms)] ==
            IF k = 0 THEN <<"I've stored the following information in my memory:\n">>
            ELSE IF ms[k].operation \in {"NEW", "UPDATE"}
            THEN F[k - 1] \o <<"- ">> \o (IF ms[k].content.some THEN ms[k].content.v
                                         ELSE <<"None">>) \o <<"\n">>
            ELSE F[k - 1]
    IN F[Len(ms)]

----------------------------------------------------------------------------
(* The entry points that emit status events: Action.action (add-memories.py), *)
(* Tools.generate_image (imagegen.py) and Pipe.outlet (thinking-claude.py).   *)

\* Action.Valves as the class declares them (the key comes from the environment)
DefaultActionValves == [enabled |-> TRUE, openai_api_key |-> "", history_length |-> 10]

\* Pipe.Valves as the class declares them
DefaultPipeValves == [thinking_depth |-> "auto", show_thinking |-> FALSE]

\* the payloads handed to __event_emitter__
StatusEvent(description, done) ==
    [type |-> "status", description |-> description, done |-> done]
CitationEvent == [type |-> "citation", description |-> "Error:adding memory", done |-> FALSE]
MessageEvent == [type |-> "message", description |-> "![Generated Image]", done |-> FALSE]
VisualEvent(title, status) == [type |-> "visual", description |-> title, done |-> status = "complete"]

\* Progress of the emissions of one call: the events delivered, the number of
\* emissions attempted, whether an exception of the emitter is travelling up,
\* and whether the emitter has raised at all.
Emission == [emitted |-> <<>>, attempts |-> 0, raised |-> FALSE, failed |-> FALSE]

\* await __event_emitter__(ev); bad holds the numbers of the emissions that raise
Emit(st, ev, bad) ==
    IF st.raised THEN st
    ELSE IF (st.attempts + 1) \in bad
    THEN [st EXCEPT !.attempts = @ + 1, !.raised = TRUE, !.failed = TRUE]
    ELSE [st EXCEPT !.attempts = @ + 1, !.emitted = Append(@, ev)]

\* what a call of an entry point comes to: it returned value or raised, with
\* the host table and the emissions it leaves behind
Outcome(result, value, M, n, st) ==
    [result |-> result, value |-> value, M |-> M, n |-> n, emitted |-> st.emitted,
     emit_failed |-> st.failed]

\* str.title() of a role
Title(role) ==
    IF role = "user" THEN "User" ELSE IF role = "assistant" THEN "Assistant" ELSE "System"

\* messages[-min(self.valves.history_length, len(messages)):]
recent_messages(messages, history_length) ==
    LET k == IF history_length < Len(messages) THEN history_length ELSE Len(messages)
    IN IF k = 0 THEN messages                     \* messages[-0:] is the whole list
       ELSE SubSeq(messages, Len(messages) - k + 1, Len(messages))

\* the memory_content Action.action builds
memory_content(messages, recent, summary) ==
    <<"Conversation on <timestamp>:\n">>
    \o (IF summary # <<>> THEN summary \o <<"\n">> ELSE <<>>)
    \o <<"last user message: ">> \o messages[Len(messages) - 1].content \o <<"\n">>
    \o <<"last assistant message: ">> \o messages[Len(messages)].content
    \o Join([k \in 1..Len(recent) |-> <<Title(recent[k].role), ": ">> \o recent[k].content],
            <<"\n">>)

\* Action.action; show_status is the user valve, bad the emissions that raise,
\* insert_raises whether the host's insert raises, summary what
\* Action.query_openai_api answers ("" on any error)
Action_action(M, n, v, b, u, show_status, has_emitter, bad, insert_raises, summary) ==
    LET none == Outcome("returned", "None", M, n, Emission)
    IN IF ~v.enabled THEN none
       ELSE IF ~u.given \/ ~u.has_id THEN none
       ELSE IF ~has_emitter THEN none
       ELSE IF ~BodyTruthy(b) \/ ~b.has_messages \/ b.messages = <<>> THEN none
       ELSE IF Len(b.messages) < 2                      \* messages[-2]: IndexError
       THEN Outcome("raised", "None", M, n, Emission)
       ELSE IF ~get_user_by_id(u.id).some THEN none
       ELSE LET s1 == IF show_status
                      THEN Emit(Emission, StatusEvent("Adding to Memories", FALSE), bad)
                      ELSE Emission
                recent == recent_messages(b.messages, v.history_length)
                content == memory_content(b.messages, recent,
                                          IF v.openai_api_key # "" THEN summary ELSE <<>>)
                fails == insert_raises \/ n > Len(FreshIds)
                M1 == IF fails THEN M ELSE insert_new_memory(M, n, u.id, content)
                n1 == IF fails THEN n ELSE n + 1
                s2 == IF fails /\ show_status
                      THEN Emit(Emit(s1, StatusEvent("Error Adding Memory", TRUE), bad),
                                CitationEvent, bad)
                      ELSE s1
                s3 == IF show_status
                      THEN Emit(s2, StatusEvent("Memory Saved", TRUE), bad)
                      ELSE s2
            IN IF s1.raised THEN Outcome("raised", "None", M, n, s1)
               ELSE IF s3.raised THEN Outcome("raised", "None", M1, n1, s3)
               ELSE Outcome("returned", "body", M1, n1, s3)

\* Tools.generate_image
generate_image(M, n, has_emitter, bad) ==
    LET s1 == IF has_emitter
              THEN Emit(Emission, StatusEvent("Generating an image", FALSE), bad)
              ELSE Emission
        s2 == IF has_emitter THEN Emit(s1, StatusEvent("Generated an image", TRUE), bad) ELSE s1
        s3 == IF has_emitter THEN Emit(s2, MessageEvent, bad) ELSE s2
        \* except Exception as e: the handler emits once more
        s4 == Emit([s3 EXCEPT !.raised = FALSE], StatusEvent("An error occurred", TRUE), bad)
    IN IF s1.raised THEN Outcome("raised", "None", M, n, s1)
       ELSE IF ~s3.raised
       THEN Outcome("returned", "Image has been successfully generated", M, n, s3)
       ELSE IF s4.raised THEN Outcome("raised", "None", M, n, s4)
       ELSE Outcome("returned", "Error generating image", M, n, s4)

\* Pipe.outlet; pv is Pipe.valves, None when nothing has set the attribute
Pipe_outlet(M, n, pv, has_emitter, bad) ==
    IF ~pv.some \/ ~has_emitter                      \* AttributeError / TypeError
    THEN Outcome("raised", "None", M, n, Emission)
    ELSE LET s1 == Emit(Emission,
                        VisualEvent("Thinking (" \o pv.v.thinking_depth \o ")", "processing"),
                        bad)
             s2 == Emit(s1, VisualEvent("Thinking Complete", "complete"), bad)
         IN IF s2.raised THEN Outcome("raised", "None", M, n, s2)
            ELSE Outcome("returned", "None", M, n, s2)

\* Pipe.determine_thinking_depth on what get_completion comes to: "raise"
\* when the call raises (the handler answers 'balanced'), or the text of
\* the answer, stripped and lowercased
determine_thinking_depth(answer) ==
    IF answer \in {"quick", "balanced", "comprehensive"} THEN answer ELSE "balanced"

\* Pipe.pipe under the valves pv: title tells whether __task__ is title
\* generation, answer what the depth completion comes to, final whether the
\* closing openai.generate_chat_completion answers.  The module binds no
\* name openai, so each call through it raises unless the host binds one:
\* both outcomes are inputs.  The messages pipe appends go to the caller's
\* body, of which the instance keeps nothing.
Pipe_pipe(pv, title, answer, final) ==
    IF title
    THEN [result |-> IF final THEN "returned" ELSE "raised", valves |-> pv]
    ELSE IF ~pv.some                                  \* self.valves: AttributeError
    THEN [result |-> "raised", valves |-> pv]
    ELSE LET depth == determine_thinking_depth(answer)
             v1 == IF pv.v.thinking_depth = "auto"
                   THEN [pv.v EXCEPT !.thinking_depth = depth]
                   ELSE pv.v
         IN [result |-> IF final THEN "returned" ELSE "raised", valves |-> Some(v1)]

\* one call of Pipe.pipe
PipeCall(title, answer, final) ==
    LET r == Pipe_pipe(Pipe_valves, title, answer, final)
    IN /\ pc = "idle"
       /\ Pipe_valves' = r.valves
       /\ emitted' = <<>>
       /\ entry' = [point |-> "pipe", result |-> r.result,
                    value |-> IF r.result = "returned" THEN "completion" ELSE "None",
                    emit_failed |-> FALSE]
       /\ UNCHANGED <<Memories, nextId, Action_valves, suspended>>
       /\ UNCHANGED FilterState


\* no entry point has been called yet
NoEntry == [point |-> "none", result |-> "none", value |-> "None", emit_failed |-> FALSE]

\* one call of an emitting entry point with the outcome r
EntryCall(point, r) ==
    /\ pc = "idle"
    /\ Memories' = r.M
    /\ nextId' = r.n
    /\ emitted' = r.emitted
    /\ entry' = [point |-> point, result |-> r.result, value |-> r.value,
                 emit_failed |-> r.emit_failed]
    /\ UNCHANGED <<Action_valves, Pipe_valves, suspended>>
    /\ UNCHANGED FilterState

----------------------------------------------------------------------------
(* State machine. *)

NoStored == [some |-> FALSE, v |-> <<>>]
NoRet == [hook |-> "none", body_in |-> NoBody, body_out |-> NoBody,
          user_arg |-> NoUser, stored_before |-> NoStored, raised |-> FALSE,
          identify_raised |-> FALSE, relevant_raised |-> FALSE,
          extracted |-> <<>>, applied |-> {}]
NoObs == [Memories0 |-> [i \in {} |-> 0], body0 |-> NoBody, completion |-> NetworkError,
          identified |-> FALSE, identify_raised |-> FALSE,
          completion_calls |-> 0, result |-> "none",
          relevant_tags |-> <<>>, relevance_failed |-> FALSE]

\* a turn of which no hook has been called yet
NoTurn == [pc |-> "idle", body |-> NoBody, user_arg |-> NoUser, user |-> NoneStr,
           relevant_memories |-> <<>>, memories |-> <<>>, memory_context |-> <<>>,
           idx |-> 0, calls |-> <<>>, obs |-> NoObs, ret |-> NoRet]

DefaultValves == [enabled |-> TRUE, model |-> "gpt-3.5-turbo", related_memories_n |-> 10]

C_LONDON == <<"lives in London">>
C_PARIS == <<"lives in Paris">>
C_TEA == <<"likes tea">>

InitMemories ==
    [i \in {"m1", "m2"} |->
        IF i = "m1"
        THEN [user_id |-> "u1", content |-> <<T_TAGS, T_SP, "location", T_CLOSE, T_SP>> \o C_LONDON]
        ELSE [user_id |-> "u2", content |-> <<T_TAGS, T_SP, "food", T_CLOSE, T_SP>> \o C_TEA]]

\* valve settings the host loads the filter with
ValveSettings ==
    {DefaultValves, [DefaultValves EXCEPT !.enabled = FALSE],
     [DefaultValves EXCEPT !.model = ""]}

\* the host table M and the filter, idle, under the valves v
InitHost(M, v) ==
    /\ Memories = M
    /\ nextId = 1
    /\ valves = v
    /\ stored_memories = NoStored
    /\ pc = "idle"
    /\ body = NoBody
    /\ user_arg = NoUser
    /\ user = NoneStr
    /\ relevant_memories = <<>>
    /\ memories = <<>>
    /\ memory_context = <<>>
    /\ idx = 0
    /\ calls = <<>>
    /\ obs = NoObs
    /\ ret = NoRet

InitFilter(v) == InitHost(InitMemories, v)

\* the other plugins, not called yet, under the valves av and pv
InitPlugins(av, pv) ==
    /\ Action_valves = av
    /\ Pipe_valves = pv
    /\ emitted = <<>>
    /\ entry = NoEntry
    /\ suspended = NoTurn

InitWith(v) == InitFilter(v) /\ InitPlugins(DefaultActionValves, None)

Init == \E v \in ValveSettings : InitWith(v)

\* the locals of an invocation, cleared when it returns
ClearLocals ==
    /\ body' = NoBody
    /\ user_arg' = NoUser
    /\ user' = NoneStr
    /\ relevant_memories' = <<>>
    /\ memories' = <<>>
    /\ memory_context' = <<>>
    /\ idx' = 0
    /\ calls' = <<>>
    /\ obs' = NoObs

\* inlet that leaves stored_memories as the previous turn left it
stored_memories_at_inlet_kept(stored) == stored

\* self.stored_memories = None, the first statement of inlet
stored_memories_at_inlet(stored) == NoStored

\* _process_user_message setting stored_memories without the test of memories
stored_memories_after_identify_always(stored, ms) == Some(ms)

\* if memories: self.stored_memories = memories
stored_memories_after_identify(stored, ms) == IF ms # <<>> THEN Some(ms) ELSE stored

\* the items of the batch that were applied: storage was called for them and
\* no call raised
AppliedOps ==
    {j \in 1..Len(memories) :
        /\ \E k \in 1..Len(calls) : calls[k].op = j
        /\ \A k \in 1..Len(calls) : calls[k].op = j => calls[k].ok}

\* inlet returns body_out for the input body_in; idr and rr tell whether an
\* exception of identify_memories / get_relevant_memories reached inlet
InletReturnsAfter(body_in, body_out, u, idr, rr) ==
    /\ pc' = "idle"
    /\ ret' = [hook |-> "inlet", body_in |-> body_in, body_out |-> body_out,
               user_arg |-> u, stored_before |-> NoStored, raised |-> FALSE,
               identify_raised |-> idr, relevant_raised |-> rr,
               extracted |-> memories, applied |-> AppliedOps]
    /\ ClearLocals

InletReturns(body_in, body_out, u, idr) == InletReturnsAfter(body_in, body_out, u, idr, FALSE)

\* Filter.inlet up to its first await
InletCall(b, u) ==
    /\ pc = "idle"
    /\ stored_memories' = stored_memories_at_inlet(stored_memories)
    /\ UNCHANGED <<Memories, nextId, valves>>
    /\ IF ~BodyTruthy(b) \/ b.kind # "dict" \/ ~u.given
       THEN InletReturns(b, b, u, FALSE)
       ELSE IF ~(b.has_messages /\ b.messages # <<>>)
       THEN InletReturns(b, b, u, FALSE)
       ELSE IF SelectSeq(b.messages, LAMBDA m : m.role = "user") = <<>>
       THEN InletReturns(b, b, u, FALSE)
       ELSE IF ~u.has_id                      \* KeyError: except Exception
       THEN InletReturns(b, b, u, FALSE)
       ELSE /\ pc' = "relevant"
            /\ body' = b
            /\ user_arg' = u
            /\ user' = get_user_by_id(u.id)
            /\ obs' = [NoObs EXCEPT !.Memories0 = Memories, !.body0 = b]
            /\ ret' = NoRet
            /\ UNCHANGED <<relevant_memories, memories, memory_context, idx, calls>>
    /\ UNCHANGED OtherPlugins

\* await self.get_relevant_memories(message, user)
GetRelevant(c, f) ==
    /\ pc = "relevant"
    /\ LET r == get_relevant_memories(Memories, valves, user, c, f)
       IN IF r.raised
          THEN InletReturnsAfter(obs.body0, body, user_arg, FALSE, TRUE) \* except of inlet
          ELSE /\ relevant_memories' = r.value
               /\ obs' = [obs EXCEPT !.completion_calls =
                               IF TagCompletionCalled(Memories, user, f) THEN @ + 1 ELSE @,
                                     !.relevant_tags = RelevantTags(Memories, user, c, f),
                                     !.relevance_failed = RelevanceFailed(Memories, user, c, f)]
               /\ pc' = "identify"
               /\ UNCHANGED <<body, user_arg, user, memories, memory_context, idx, calls, ret>>
    /\ UNCHANGED <<Memories, nextId, valves, stored_memories>>
    /\ UNCHANGED OtherPlugins

\* await self.identify_memories(...) and the branch that follows it
Identify(c) ==
    /\ pc = "identify"
    /\ LET r == identify_memories(valves, c)
       IN IF r.raised
          THEN /\ InletReturns(body, body, user_arg, TRUE) \* except Exception of inlet
               /\ UNCHANGED stored_memories
          ELSE /\ memories' = r.value
               /\ obs' = [obs EXCEPT !.completion = c, !.identified = TRUE,
                                     !.completion_calls =
                                         IF valves.model # "" THEN @ + 1 ELSE @]
               /\ stored_memories' = stored_memories_after_identify(stored_memories, r.value)
               /\ IF r.value # <<>> /\ user.some
                  THEN pc' = "process" /\ idx' = 1
                  ELSE pc' = "update" /\ idx' = idx
               /\ UNCHANGED <<body, user_arg, user, relevant_memories, memory_context,
                              calls, ret>>
    /\ UNCHANGED <<Memories, nextId, valves>>
    /\ UNCHANGED OtherPlugins

\* one turn of the loop of process_memories, and its return when the loop
\* ends or an exception reaches the outer handler
ProcessStep(f) ==
    /\ pc = "process"
    /\ LET t == LoopTurn(Memories, nextId, idx, memories[idx], user.v, f)
       IN /\ Memories' = t.M
          /\ nextId' = t.n
          /\ calls' = calls \o t.calls
          /\ IF t.outcome = "failed"
             THEN /\ pc' = "update"                       \* return False
                  /\ idx' = idx
                  /\ memory_context' = <<>>
                  /\ obs' = [obs EXCEPT !.result = "False"]
             ELSE IF idx = Len(memories)
             THEN /\ pc' = "update"                       \* return True
                  /\ idx' = idx + 1
                  /\ memory_context' = StoredContext(memories)
                  /\ obs' = [obs EXCEPT !.result = "True"]
             ELSE /\ pc' = "process"
                  /\ idx' = idx + 1
                  /\ UNCHANGED <<memory_context, obs>>
    /\ UNCHANGED <<valves, stored_memories, body, user_arg, user, relevant_memories,
                   memories, ret>>
    /\ UNCHANGED OtherPlugins

\* self._update_message_context(...) and return body
InletReturn ==
    /\ pc = "update"
    /\ InletReturns(obs.body0,
                    _update_message_context(body, memory_context, relevant_memories),
                    user_arg, FALSE)
    /\ UNCHANGED <<Memories, nextId, valves, stored_memories>>
    /\ UNCHANGED OtherPlugins

\* Filter.outlet
Outlet(b, u) ==
    /\ pc = "idle"
    /\ LET appends == valves.enabled /\ stored_memories.some /\ stored_memories.v # <<>>
                      /\ b.kind = "dict" /\ b.has_messages
           resets == valves.enabled /\ stored_memories.some /\ stored_memories.v # <<>>
                     /\ b.kind # "none"            \* "messages" in None: TypeError, caught
           out == IF appends
                  THEN [b EXCEPT !.messages =
                            Append(@, Msg("assistant", Confirmation(stored_memories.v)))]
                  ELSE b
       IN /\ ret' = [hook |-> "outlet", body_in |-> b, body_out |-> out, user_arg |-> u,
                     stored_before |-> stored_memories, raised |-> FALSE,
                     identify_raised |-> FALSE, relevant_raised |-> FALSE,
                     extracted |-> ret.extracted, applied |-> ret.applied]
          /\ stored_memories' = IF resets THEN NoStored ELSE stored_memories
    /\ UNCHANGED <<Memories, nextId, valves, pc, body, user_arg, user, relevant_memories,
                   memories, memory_context, idx, calls, obs>>
    /\ UNCHANGED OtherPlugins

\* The event loop switches between two turns that share the Filter instance:
\* the turn in flight is between its hooks or waits for the completion
\* endpoint inside identify_memories, and the waiting turn is resumed.
Yield ==
    /\ pc \in {"idle", "identify"}
    /\ pc = "identify" => valves.model # ""
    /\ suspended' = [pc |-> pc, body |-> body, user_arg |-> user_arg, user |-> user,
                     relevant_memories |-> relevant_memories, memories |-> memories,
                     memory_context |-> memory_context, idx |-> idx, calls |-> calls,
                     obs |-> obs, ret |-> ret]
    /\ pc' = suspended.pc
    /\ body' = suspended.body
    /\ user_arg' = suspended.user_arg
    /\ user' = suspended.user
    /\ relevant_memories' = suspended.relevant_memories
    /\ memories' = suspended.memories
    /\ memory_context' = suspended.memory_context
    /\ idx' = suspended.idx
    /\ calls' = suspended.calls
    /\ obs' = suspended.obs
    /\ ret' = suspended.ret
    /\ UNCHANGED <<Memories, nextId, valves, stored_memories>>
    /\ UNCHANGED <<Action_valves, Pipe_valves, emitted, entry>>

----------------------------------------------------------------------------
(* Inputs and specifications. *)

U1 == UserDict("u1")
U2 == UserDict("u2")
Ghost == UserDict("ghost")

HI == <<"hi">>

\* request bodies the host hands to the hooks
BodyInputs ==
    {NoBody, StrBody, Body("dict", FALSE, FALSE, <<>>), Body("dict", FALSE, TRUE, <<>>),
     DictBody(<<>>),
     DictBody(<<Msg("assistant", HI)>>),
     DictBody(<<Msg("user", HI)>>),
     DictBody(<<Msg("system", <<"be brief">>), Msg("user", HI)>>)}

UserInputs == {NoUser, UserWithoutId, U1, U2, Ghost}

\* (body, __user__) pairs a hook is called with: every body with a known
\* user, and every user with the bodies that carry a user message
HookInputs ==
    (BodyInputs \X {U1})
    \cup ({b \in BodyInputs : \E k \in 1..Len(b.messages) : b.messages[k].role = "user"}
          \X UserInputs)
    \cup {<<DictBody(<<>>), NoUser>>, <<NoBody, NoUser>>}

\* number of the storage call of one step that raises (0: none)
Faults == 0..3

\* answers of the tag-selection completion
TagCompletions ==
    {NetworkError, Completion("dict", TagNotJson), Completion("dict", TagNotDict),
     Completion("dict", TagText(<<>>)), Completion("JSONResponse", TagText(<<"Food", "location">>))}

\* items the model's array is made of in the turn-level specification
TurnItems ==
    {NonObj,
     OpNew(Some(C_TEA), <<"food">>),
     OpNew(Some(<<>>), <<>>),
     OpUpdate(Some("m1"), Some(C_PARIS), <<"location">>),
     OpDelete(Some("m1"))}

\* completions whose text is not an array of items
MalformedCompletions ==
    {NetworkError, OtherType, Completion("dict", NullText),
     Completion("dict", NotJsonText), Completion("JSONResponse", NonArrayText)}

TurnCompletions ==
    MalformedCompletions
    \cup {Completion("dict", ArrayText(s)) : s \in SeqsUpTo(TurnItems, MaxOps)}

Next ==
    \/ \E in \in HookInputs : InletCall(in[1], in[2])
    \/ \E c \in TagCompletions, f \in 0..2 : GetRelevant(c, f)
    \/ \E c \in TurnCompletions : Identify(c)
    \/ \E f \in Faults : ProcessStep(f)
    \/ InletReturn
    \/ \E in \in HookInputs : Outlet(in[1], in[2])

Spec == Init /\ [][Next]_vars

----------------------------------------------------------------------------
(* One inlet invocation on every shape of item the model may return. *)

BatchItems ==
    TurnItems
    \cup {Obj({}, "", NoneStr, None, <<>>),
          Obj({"operation", "content"}, "MERGE", NoneStr, Some(C_TEA), <<>>),
          Obj({"operation", "tags"}, "NEW", NoneStr, None, <<"food">>),
          OpNew(None, <<>>),
          OpUpdate(Some("m9"), Some(C_PARIS), <<>>),
          OpUpdate(Some(""), Some(C_PARIS), <<>>),
          Obj({"operation", "content"}, "UPDATE", NoneStr, Some(C_PARIS), <<>>),
          Obj({"operation", "id"}, "UPDATE", Some("m1"), None, <<>>),
          OpUpdate(Some("m1"), Some(<<>>), <<>>),
          OpDelete(Some("m9")),
          OpDelete(Some("")),
          OpDelete(NoneStr),
          Obj({"operation"}, "DELETE", NoneStr, None, <<>>),
          OpDelete(Some("m2"))}

BatchCompletions ==
    MalformedCompletions
    \cup {Completion("dict", ArrayText(s)) : s \in SeqsUpTo(BatchItems, MaxOps)}

BatchBodies == {DictBody(<<Msg("user", HI)>>)}

BatchUsers == {U1, U2}

NextBatch ==
    \/ \E b \in BatchBodies, u \in BatchUsers : ret.hook = "none" /\ InletCall(b, u)
    \/ \E c \in TagCompletions, f \in 0..2 : GetRelevant(c, f)
    \/ \E c \in BatchCompletions : Identify(c)
    \/ \E f \in Faults : ProcessStep(f)
    \/ InletReturn

InitBatch == InitWith(DefaultValves)

SpecBatch == InitBatch /\ [][NextBatch]_vars

(* One inlet call whose batch holds NEW operations with every kind of tag *)
(* list: none, one tag, two tags, a tag that holds a comma.               *)
TagItems ==
    {OpNew(Some(C_TEA), <<>>),
     OpNew(Some(C_TEA), <<"food">>),
     OpNew(Some(C_TEA), <<"food", "location">>),
     OpNew(Some(C_PARIS), <<"location">>),
     OpNew(Some(C_TEA), <<TAG_FOOD_DRINK>>)}

TagItemCompletions ==
    {Completion("dict", ArrayText(s)) : s \in SeqsUpTo(TagItems, MaxOps)}

NextTags ==
    \/ \E b \in BatchBodies, u \in BatchUsers : ret.hook = "none" /\ InletCall(b, u)
    \/ \E c \in TagCompletions, f \in 0..2 : GetRelevant(c, f)
    \/ \E c \in TagItemCompletions : Identify(c)
    \/ \E f \in Faults : ProcessStep(f)
    \/ InletReturn

InitTags == InitWith(DefaultValves)

SpecTags == InitTags /\ [][NextTags]_vars

----------------------------------------------------------------------------
(* Relevance retrieval over the tables the host may hold. *)

\* most records the host table holds
MaxMems == 3

Tagged(tags, c) == <<T_TAGS, T_SP>> \o tags \o <<T_CLOSE, T_SP>> \o c

\* the records the tables are made of, in the order the host lists them
RankPool ==
    <<[user_id |-> "u1", content |-> Tagged(<<"location">>, C_PARIS)],
      [user_id |-> "u1", content |-> Tagged(<<"location">>, C_LONDON)],
      [user_id |-> "u1", content |-> Tagged(<<"location", T_COMMA, T_SP, "food">>, C_TEA)],
      [user_id |-> "u1", content |-> Tagged(<<"food">>, C_TEA)],
      [user_id |-> "u1", content |-> C_TEA],
      [user_id |-> "u1", content |-> <<"see", T_COMMA, T_SP>> \o Tagged(<<"food">>, C_TEA)],
      [user_id |-> "u2", content |-> Tagged(<<"food">>, C_PARIS)]>>

RankTables ==
    {[i \in {IdOrder[k] : k \in S} |-> RankPool[IdRank(i)]] :
        S \in {X \in SUBSET (1..Len(RankPool)) : Cardinality(X) <= MaxMems}}

\* settings of related_memories_n
RankValves == {[DefaultValves EXCEPT !.related_memories_n = n] : n \in {1, 2, 10}}

RankTagCompletions ==
    TagCompletions
    \cup {Completion("dict", TagText(<<"location">>)), Completion("dict", TagText(<<"food">>))}

\* extraction finds nothing to store
RankCompletions == {NetworkError, Completion("dict", ArrayText(<<>>))}

NextRank ==
    \/ \E b \in BatchBodies, u \in {U1, U2, Ghost} : ret.hook = "none" /\ InletCall(b, u)
    \/ \E c \in RankTagCompletions, f \in 0..2 : GetRelevant(c, f)
    \/ \E c \in RankCompletions : Identify(c)
    \/ InletReturn

InitRank ==
    \E M \in RankTables, v \in RankValves : InitHost(M, v) /\ InitPlugins(DefaultActionValves, None)

SpecRank == InitRank /\ [][NextRank]_vars

----------------------------------------------------------------------------
(* Calls of the emitting entry points. *)

\* most messages a body handed to Action.action holds
MaxMessages == 3

\* largest history_length the action is configured with
MaxHistory == 2

\* the k-th message of the conversation the bodies are cut from
Dialogue(k) == Msg(IF k % 2 = 1 THEN "user" ELSE "assistant", <<"message " \o ToString(k)>>)

EmitBodies ==
    {NoBody, DictBody(<<>>)}
    \cup {DictBody([k \in 1..len |-> Dialogue(k)]) : len \in 1..MaxMessages}

ActionValveSettings ==
    {[DefaultActionValves EXCEPT !.enabled = FALSE]}
    \cup {[enabled |-> TRUE, openai_api_key |-> key, history_length |-> h] :
              key \in {"", "sk"}, h \in 0..MaxHistory}

PipeValveSettings == {None, Some(DefaultPipeValves)}

\* the emissions of one call that raise: none, one of them, or all
EmitFaults == {{}, 1..4} \cup {{k} : k \in 1..4}

\* answers of Action.query_openai_api: "" on any error, or the summary
Summaries == {<<>>, <<"Conversation summary: tea">>}

ActionCall(b, u, show_status, has_emitter, bad, insert_raises, summary) ==
    EntryCall("action", Action_action(Memories, nextId, Action_valves, b, u, show_status,
                                      has_emitter, bad, insert_raises, summary))

GenerateImage(has_emitter, bad) ==
    EntryCall("generate_image", generate_image(Memories, nextId, has_emitter, bad))

PipeOutlet(has_emitter, bad) ==
    EntryCall("outlet", Pipe_outlet(Memories, nextId, Pipe_valves, has_emitter, bad))

NextEmit ==
    \/ \E b \in EmitBodies, u \in {NoUser, UserWithoutId, U1, Ghost}, show_status \in BOOLEAN,
          has_emitter \in BOOLEAN, bad \in EmitFaults, insert_raises \in BOOLEAN,
          summary \in Summaries :
            ActionCall(b, u, show_status, has_emitter, bad, insert_raises, summary)
    \/ \E has_emitter \in BOOLEAN, bad \in EmitFaults : GenerateImage(has_emitter, bad)
    \/ \E has_emitter \in BOOLEAN, bad \in EmitFaults : PipeOutlet(has_emitter, bad)

InitEmit ==
    \E av \in ActionValveSettings, pv \in PipeValveSettings :
        InitFilter(DefaultValves) /\ InitPlugins(av, pv)

SpecEmit == InitEmit /\ [][NextEmit]_vars

----------------------------------------------------------------------------
(* Calls of the thinking pipe on an instance configured with depth 'auto', *)
(* among the calls the host makes of the other entry points.               *)

\* what the depth completion comes to
DepthAnswers == {"raise", "quick", "balanced", "comprehensive", "deep"}

\* the valves of an instance whose thinking_depth is 'auto'
AutoValveSettings ==
    {Some([DefaultPipeValves EXCEPT !.show_thinking = s]) : s \in BOOLEAN}

NextPipe ==
    \/ \E title \in BOOLEAN, answer \in DepthAnswers, final \in BOOLEAN :
           PipeCall(title, answer, final)
    \/ \E has_emitter \in BOOLEAN, bad \in EmitFaults : PipeOutlet(has_emitter, bad)
    \/ \E has_emitter \in BOOLEAN, bad \in EmitFaults : GenerateImage(has_emitter, bad)
    \/ \E b \in EmitBodies, insert_raises \in BOOLEAN :
           ActionCall(b, U1, TRUE, TRUE, {}, insert_raises, <<>>)

InitPipe ==
    \E pv \in AutoValveSettings : InitFilter(DefaultValves) /\ InitPlugins(DefaultActionValves, pv)

SpecPipe == InitPipe /\ [][NextPipe]_vars


----------------------------------------------------------------------------
(* One inlet call on requests whose latest user message is empty or not. *)

LatestBodies ==
    {DictBody(<<Msg("user", <<>>)>>),
     DictBody(<<Msg("user", HI), Msg("assistant", HI), Msg("user", <<>>)>>),
     DictBody(<<Msg("user", HI)>>)}

NextLatest ==
    \/ \E b \in LatestBodies, u \in BatchUsers : ret.hook = "none" /\ InletCall(b, u)
    \/ \E c \in TagCompletions, f \in 0..2 : GetRelevant(c, f)
    \/ \E c \in TurnCompletions : Identify(c)
    \/ \E f \in Faults : ProcessStep(f)
    \/ InletReturn

SpecLatest == InitBatch /\ [][NextLatest]_vars

----------------------------------------------------------------------------
(* Two turns, of two users, that overlap on the one Filter instance: each   *)
(* turn is an inlet followed by an outlet for the same user.                *)

\* the user of the waiting turn
SuspendedUser ==
    IF suspended.pc # "idle" THEN suspended.user_arg ELSE suspended.ret.user_arg

\* what the model extracts from the message of either user, or nothing
SharedCompletions ==
    {Completion("dict", ArrayText(<<>>)),
     Completion("dict", ArrayText(<<OpNew(Some(C_TEA), <<"food">>)>>)),
     Completion("dict", ArrayText(<<OpNew(Some(C_PARIS), <<>>), OpDelete(Some("m1"))>>))}

NextShared ==
    \/ \E b \in BatchBodies, u \in BatchUsers :
           ret.hook = "none" /\ u # SuspendedUser /\ InletCall(b, u)
    \/ \E c \in TagCompletions : GetRelevant(c, 0)
    \/ \E c \in SharedCompletions : Identify(c)
    \/ ProcessStep(0)
    \/ InletReturn
    \/ \E b \in BatchBodies : ret.hook = "inlet" /\ Outlet(b, ret.user_arg)
    \/ Yield

SpecShared == InitBatch /\ [][NextShared]_vars


----------------------------------------------------------------------------
(* Properties of process_memories (checked under SpecBatch). *)

\* the fields the data model requires of an operation of its kind
RequiredFieldsPresent(d) ==
    /\ d.operation \in {"UPDATE", "DELETE"} => TruthyStr(ItemId(d))
    /\ d.operation \in {"NEW", "UPDATE"} => TruthyTokens(ItemContent(d))

\* process_memories has returned (True or False) in the invocation in flight
ProcessReturned == pc = "update" /\ obs.result # "none"

\* the storage calls made for item j of the batch
CallsOf(j) == SelectSeq(calls, LAMBDA c : c.op = j)

\* C1: once process_memories has returned, every item of the batch that is a
\* valid MemoryOperation has been applied (storage was called for it), also
\* when a storage call raised for an earlier item.
C1_LaterOperationsApplied ==
    ProcessReturned =>
        \A j \in 1..Len(memories) :
            ~MemoryOperation(memories[j]).raised => CallsOf(j) # <<>>

\* C3: no insert and no delete is ever made for an operation that lacks a
\* field its kind requires (id for UPDATE/DELETE, content for NEW/UPDATE).
C3_InvalidNeverApplied ==
    \A k \in 1..Len(calls) :
        calls[k].fn \in {"insert", "delete"} => RequiredFieldsPresent(memories[calls[k].op])

\* C3 witness: a batch with an operation lacking a required field was processed
\* to the end, the loop passed that operation and applied another one.
C3_Witness ==
    /\ ProcessReturned
    /\ obs.result = "True"
    /\ \E j \in 1..Len(memories) : ~RequiredFieldsPresent(memories[j])
    /\ \E k \in 1..Len(calls) : calls[k].fn = "insert" /\ calls[k].ok

----------------------------------------------------------------------------
(* Properties of identify_memories (checked under SpecBatch). *)

\* the array the completion carried, when it carried one
ModelArray == obs.completion.text.items

\* the completion answered with a text that parses to a JSON array
IsArrayAnswer(c) ==
    c.kind \in {"dict", "JSONResponse"} /\ c.text.t = "json" /\ c.text.isList

\* C4: the list identify_memories returns holds no UPDATE or DELETE without a
\* non-empty id and no NEW or UPDATE without non-empty content.
C4_IdentifiedHaveRequiredFields ==
    obs.identified => \A j \in 1..Len(memories) : RequiredFieldsPresent(memories[j])

\* the id names a record that the acting user owned when the hook was called
KnownOwnId(i) ==
    i.some /\ i.v \in DOMAIN obs.Memories0 /\ obs.Memories0[i.v].user_id = user.v

\* C5: an UPDATE or DELETE whose id is not the id of a stored memory of the
\* acting user is not in the list identify_memories returns, and no storage
\* call is made for it.
C5_UnknownIdDiscarded ==
    obs.identified =>
        /\ \A j \in 1..Len(memories) :
               memories[j].operation \in {"UPDATE", "DELETE"} => KnownOwnId(ItemId(memories[j]))
        /\ \A k \in 1..Len(calls) :
               memories[calls[k].op].operation \in {"UPDATE", "DELETE"}
                   => KnownOwnId(ItemId(memories[calls[k].op]))

\* a model output the claim C6 calls malformed
Malformed(c) ==
    /\ c.kind \in {"dict", "JSONResponse"}
    /\ \/ c.text.t = "notjson"
       \/ c.text.t = "json" /\ ~c.text.isList
       \/ c.text.t = "json" /\ c.text.isList
          /\ \E k \in 1..Len(c.text.items) : ~c.text.items[k].isdict

\* C6 as stated: every malformed output (no JSON, no array, an array with a
\* non-object item) yields the empty list.
C6_MalformedYieldsEmpty ==
    (obs.identified /\ Malformed(obs.completion)) => memories = <<>>

\* C6 as amended: identify_memories does not raise; text that is no JSON or no
\* array yields the empty list; of an array with non-object items exactly those
\* items are dropped as non-objects: no non-object is returned and every item
\* that passes validation is.
C6_MalformedHandledPerItem ==
    /\ ~ret.identify_raised
    /\ obs.identified =>
        /\ ~IsArrayAnswer(obs.completion) => memories = <<>>
        /\ \A j \in 1..Len(memories) : memories[j].isdict
        /\ IsArrayAnswer(obs.completion) =>
               \A k \in 1..Len(ModelArray) :
                   _validate_memory_operation(ModelArray[k])
                       => \E j \in 1..Len(memories) : memories[j] = ModelArray[k]

\* C6 witness: an array holding a non-object item and a valid operation was
\* interpreted, and the valid operation was returned.
C6_Witness ==
    /\ obs.identified
    /\ IsArrayAnswer(obs.completion)
    /\ \E k \in 1..Len(ModelArray) : ~ModelArray[k].isdict
    /\ memories # <<>>

\* C7: the returned list is the subsequence of the model's array made of the
\* items that pass validation, in the model's order.
C7_ValidSubsequenceInOrder ==
    (obs.identified /\ IsArrayAnswer(obs.completion)) =>
        memories = SelectSeq(ModelArray, LAMBDA d : _validate_memory_operation(d))

\* C7 witness: two different valid operations were returned from an array of
\* two, or one valid operation survived next to a discarded item.
C7_Witness ==
    /\ obs.identified
    /\ IsArrayAnswer(obs.completion)
    /\ Len(ModelArray) = 2
    /\ \/ Len(memories) = 2 /\ memories[1] # memories[2]
       \/ Len(memories) = 1 /\ ~_validate_memory_operation(ModelArray[1])

\* the completion call or the JSON parse raised
ExtractionFailed(c) ==
    \/ c.kind \in {"raise", "other"}
    \/ c.kind \in {"dict", "JSONResponse"} /\ c.text.t \in {"none", "notjson"}

\* C8: identify_memories never raises; when the completion call or the JSON
\* parse raised it returns the empty list, and no storage call follows.
C8_ExtractionFailsOpen ==
    /\ ~ret.identify_raised
    /\ (obs.identified /\ ExtractionFailed(obs.completion)) =>
          /\ memories = <<>>
          /\ calls = <<>>
          /\ Memories = obs.Memories0
          /\ pc \in {"update", "idle"}

\* C8 witness: the completion call raised a network error and inlet went on to
\* its return without touching storage.
C8_Witness ==
    /\ pc = "update"
    /\ obs.identified
    /\ obs.completion = NetworkError

----------------------------------------------------------------------------
(* Properties of _execute_memory_operation (checked under SpecBatch). *)

\* the storage calls the step being taken adds to the log
NewCalls == SubSeq(calls', Len(calls) + 1, Len(calls'))

\* the step being taken handles a valid operation of the given kind
HandlesValid(kind) ==
    /\ pc = "process"
    /\ memories[idx].operation = kind
    /\ ~MemoryOperation(memories[idx]).raised

\* what an UPDATE of an existing record does when no storage call raises
UpdateStep ==
    LET old == ItemId(memories[idx]).v
        new == FreshIds[nextId]
        c == _format_memory_content(MemoryOperation(memories[idx]).value)
    IN (HandlesValid("UPDATE") /\ old \in DOMAIN Memories /\ idx' = idx + 1) =>
          /\ [k \in 1..Len(NewCalls) |-> NewCalls[k].fn] = <<"get", "delete", "insert">>
          /\ old \notin DOMAIN Memories'
          /\ new # old
          /\ DOMAIN Memories' = (DOMAIN Memories \ {old}) \cup {new}
          /\ Memories'[new] = [user_id |-> user.v, content |-> c]
          /\ \A j \in DOMAIN Memories \ {old} : Memories'[j] = Memories[j]

\* C9: applying an UPDATE whose id names an existing record deletes that
\* record and then inserts one new record of the acting user holding the
\* formatted content; afterwards the old id is gone and the content sits
\* under a different id.
C9_UpdateDeletesThenInserts == [][UpdateStep]_vars

\* C9 witness: for one UPDATE the log holds a successful delete followed by a
\* successful insert.
C9_Witness ==
    \E k \in 1..Len(calls) : \E l \in 1..Len(calls) :
        /\ k < l
        /\ calls[k].op = calls[l].op
        /\ memories[calls[k].op].operation = "UPDATE"
        /\ calls[k].fn = "delete" /\ calls[k].ok
        /\ calls[l].fn = "insert" /\ calls[l].ok

\* what a DELETE does when the storage call does not raise
DeleteStep ==
    LET id == ItemId(memories[idx]).v
    IN (HandlesValid("DELETE") /\ \A k \in 1..Len(NewCalls) : NewCalls[k].ok) =>
          /\ DOMAIN Memories' = DOMAIN Memories \ {id}
          /\ \A j \in DOMAIN Memories' : Memories'[j] = Memories[j]
          /\ nextId' = nextId
          /\ id \notin DOMAIN Memories => Memories' = Memories
          /\ idx' = idx + 1
          /\ obs'.result # "False"
          /\ idx < Len(memories) => pc' = "process"

\* C10: a DELETE removes the record with that id and nothing else; with no
\* such record storage is unchanged, nothing is raised, and process_memories
\* goes on with the next operation and still reports success.
C10_DeleteRemovesOnlyThatRecord == [][DeleteStep]_vars

\* C10 witness: a DELETE of an id that names no record was applied, the batch
\* went on to a later operation and process_memories returned True.
C10_Witness ==
    /\ ProcessReturned
    /\ obs.result = "True"
    /\ \E k \in 1..Len(calls) : \E l \in 1..Len(calls) :
          /\ calls[k].fn = "delete" /\ calls[k].ok
          /\ calls[k].id \notin DOMAIN obs.Memories0
          /\ calls[l].op > calls[k].op

----------------------------------------------------------------------------
(* Properties of the hooks (checked under Spec). *)

\* the input the last returned hook got is one both hooks must leave alone:
\* a body that is missing or no dict, a missing user, an empty message list
UntouchableInput ==
    \/ ret.body_in.kind \in {"none", "nondict"}
    \/ ~ret.user_arg.given
    \/ ret.body_in.kind = "dict" /\ ret.body_in.has_messages /\ ret.body_in.messages = <<>>

\* C2: inlet and outlet never raise, and return the body unchanged when the
\* body is missing or no dict, the user is missing or the message list empty.
C2_HooksLeaveMalformedInputAlone ==
    (ret.hook # "none" /\ UntouchableInput) =>
        ~ret.raised /\ ret.body_out = ret.body_in

----------------------------------------------------------------------------
(* Properties of the tag convention (checked under SpecTags).  *)

\* the content a NEW operation with tags T and content c is to be stored as
TaggedContent(T, c) ==
    IF T = <<>> THEN c
    ELSE <<T_TAGS, T_SP>> \o Join([k \in 1..Len(T) |-> TagTokens(T[k])], <<T_COMMA, T_SP>>)
         \o <<T_CLOSE, T_SP>> \o c

\* the successful inserts made for item j of the batch
InsertsOf(j) == SelectSeq(calls, LAMBDA x : x.op = j /\ x.fn = "insert" /\ x.ok)

\* C11: a NEW operation with content c and tags T is inserted as exactly one
\* record of the acting user holding '[Tags: t1, t2] c' (c when T is empty),
\* and _parse_memory_tags of the stored content gives back T, in order, for
\* every non-empty T of lowercase tags.
C11_TagRoundTrip ==
    \A k \in 1..Len(calls) :
        (calls[k].fn = "insert" /\ calls[k].ok /\ memories[calls[k].op].operation = "NEW") =>
            LET d == memories[calls[k].op]
                T == ItemTags(d)
            IN /\ Len(InsertsOf(calls[k].op)) = 1
               /\ calls[k].user_id = user.v
               /\ calls[k].content = TaggedContent(T, ItemContent(d).v)
               /\ (T # <<>> /\ \A j \in 1..Len(T) : Lower(T[j]) = T[j])
                      => _parse_memory_tags(calls[k].content) = T

----------------------------------------------------------------------------
(* Properties of relevance retrieval (checked under SpecRank). *)

\* get_relevant_memories has returned in the invocation in flight
RelevantReturned == pc = "identify"

\* the set of relevant tags the ranking was made with
RelevantSet == Range(obs.relevant_tags)

\* number of the tags of a content that are relevant
ScoreOf(content) == Cardinality(Range(_parse_memory_tags(content)) \cap RelevantSet)

\* contents of the acting user's records with a strictly positive score
Positives ==
    {Memories[i].content : i \in {j \in get_memories_by_user_id(Memories, user.v) :
                                      ScoreOf(Memories[j].content) > 0}}

\* content a ranks before content b: higher score, or equal score and smaller string
RanksBefore(a, b) ==
    ScoreOf(a) > ScoreOf(b) \/ (ScoreOf(a) = ScoreOf(b) /\ LexLess(a, b))

\* C12: get_relevant_memories returns only memories of the user with a
\* strictly positive score (number of their tags in the relevant-tag set), in
\* descending score with ties in ascending content, and it returns the first
\* related_memories_n of them.
C12_RankedPositiveTopN ==
    (RelevantReturned /\ user.some) =>
        /\ \A k \in 1..Len(relevant_memories) : relevant_memories[k] \in Positives
        /\ \A k \in 1..Len(relevant_memories) : \A l \in 1..Len(relevant_memories) :
               k < l => RanksBefore(relevant_memories[k], relevant_memories[l])
        /\ Len(relevant_memories) <= valves.related_memories_n
        /\ Len(relevant_memories) =
               IF Cardinality(Positives) < valves.related_memories_n
               THEN Cardinality(Positives) ELSE valves.related_memories_n
        /\ \A a \in Positives \ Range(relevant_memories) :
               \A k \in 1..Len(relevant_memories) : RanksBefore(relevant_memories[k], a)

\* C12 witness: three memories scored positive, two were returned, and the
\* first of them has the higher score although its content is the greater.
C12_Witness ==
    /\ RelevantReturned
    /\ user.some
    /\ Cardinality(Positives) = 3
    /\ Len(relevant_memories) = 2
    /\ ScoreOf(relevant_memories[1]) > ScoreOf(relevant_memories[2])
    /\ LexLess(relevant_memories[2], relevant_memories[1])

\* the content starts with the '[Tags: ...]' prefix
HasLeadingPrefix(content) == content # <<>> /\ Head(content) = T_TAGS

\* C13: a memory whose content does not start with the '[Tags: ...]' prefix
\* contributes no tags to the vocabulary and is never returned as relevant.
C13_TagsOnlyFromLeadingPrefix ==
    (RelevantReturned /\ user.some) =>
        \A i \in get_memories_by_user_id(Memories, user.v) :
            ~HasLeadingPrefix(Memories[i].content) =>
                /\ _parse_memory_tags(Memories[i].content) = <<>>
                /\ \A k \in 1..Len(relevant_memories) :
                       relevant_memories[k] # Memories[i].content

\* C14: no exception leaves get_relevant_memories, and when a step of it
\* raised (the user has no id to list by, the listing of the user's records,
\* the tag-selection completion call, the parse of its answer) the relevance
\* list is empty.
C14_RelevanceFailsOpen ==
    /\ ~ret.relevant_raised
    /\ (RelevantReturned /\ obs.relevance_failed) => relevant_memories = <<>>

\* C14 witness: the user has tagged memories, a step of the retrieval raised
\* and inlet went on to extraction.
C14_Witness ==
    /\ RelevantReturned
    /\ obs.relevance_failed
    /\ user.some
    /\ _get_all_memory_tags(Memories, user.v) # {}
    /\ obs.completion_calls = 1

----------------------------------------------------------------------------
(* Properties of the event emissions (checked under SpecEmit). *)

\* C20: when __event_emitter__ raises on an emission, the entry point that
\* emitted (Action.action, Tools.generate_image, Pipe.outlet) still returns:
\* the exception does not leave it.
C20_EmissionFailureSwallowed ==
    (entry.point # "none" /\ entry.emit_failed) => entry.result = "returned"

----------------------------------------------------------------------------
(* Properties of the splice into the request (checked under Spec). *)

\* the step being taken is the return of inlet after _process_user_message
InletReturnStep == pc = "update" /\ pc' = "idle"

\* the text _update_message_context has to splice in
SplicedText ==
    memory_context
    \o (IF relevant_memories # <<>> THEN RelevantContext(relevant_memories) ELSE <<>>)

\* what the return of inlet does to the messages when there is a context
SpliceStep ==
    LET in == obs.body0.messages
        out == ret'.body_out.messages
    IN (InletReturnStep /\ (memory_context # <<>> \/ relevant_memories # <<>>)) =>
          /\ [ret'.body_out EXCEPT !.messages = in] = obs.body0
          /\ IF in[1].role = "system"
             THEN /\ Len(out) = Len(in)
                  /\ out[1] = Msg("system", in[1].content \o SplicedText)
                  /\ \A k \in 2..Len(in) : out[k] = in[k]
             ELSE /\ Len(out) = Len(in) + 1
                  /\ out[1] = Msg("system", SplicedText)
                  /\ \A k \in 1..Len(in) : out[k + 1] = in[k]

\* C15: with a non-empty memory context inlet splices exactly one system-role
\* context into the request: the content of a first system message is
\* extended and the number of messages stays, otherwise one system message is
\* inserted at index 0; the original messages keep order, role and content.
C15_SpliceOneSystemContext == [][SpliceStep]_vars

\* C15 witness: inlet returned a request whose first message was a system
\* message, with that message extended and the number of messages unchanged.
C15_Witness ==
    /\ ret.hook = "inlet"
    /\ ret.body_in.messages # <<>>
    /\ ret.body_in.messages[1].role = "system"
    /\ ret.body_out # ret.body_in
    /\ Len(ret.body_out.messages) = Len(ret.body_in.messages)

\* the body out is the body in with nothing but the relevant memories spliced in
OnlyRelevantSpliced(in, out, rel) ==
    IF rel = <<>> THEN out = in
    ELSE IF in.messages[1].role = "system"
    THEN out = [in EXCEPT !.messages[1].content = @ \o RelevantContext(rel)]
    ELSE out = [in EXCEPT !.messages = <<Msg("system", RelevantContext(rel))>> \o @]

\* inlet returns after an extraction whose completion call raised a network error
NetworkErrorReturn ==
    InletReturnStep /\ obs.identified /\ valves.model # "" /\ obs.completion = NetworkError

\* C18 as stated: after a network error during extraction inlet returns the
\* original body unmodified, does not raise and has not mutated storage.
C18_NetworkErrorLeavesBody ==
    [][NetworkErrorReturn =>
          /\ ret'.body_out = obs.body0
          /\ ~ret'.raised
          /\ Memories' = obs.Memories0 /\ calls = <<>>]_vars

\* C18 as amended: after a network error during extraction inlet does not
\* raise, has made no storage call, has stored no operation and adds no
\* stored-operation log; the only change to the body is the splice of the
\* relevant memories, when relevance retrieval returned some.
C18_NetworkErrorAddsNoLog ==
    [][NetworkErrorReturn =>
          /\ ~ret'.raised /\ ~ret'.identify_raised
          /\ Memories' = obs.Memories0 /\ calls = <<>>
          /\ ret'.extracted = <<>> /\ memory_context = <<>>
          /\ relevant_memories = <<>> => ret'.body_out = obs.body0
          /\ OnlyRelevantSpliced(obs.body0, ret'.body_out, relevant_memories)]_vars

\* C18 witness: the extraction completion raised a network error while
\* relevance retrieval had returned a memory, and inlet is about to return.
C18_Witness ==
    /\ pc = "update"
    /\ obs.identified /\ valves.model # "" /\ obs.completion = NetworkError
    /\ relevant_memories # <<>>

\* inlet returns after an extraction that yielded no operations
EmptyExtractionReturn == InletReturnStep /\ obs.identified /\ memories = <<>>

\* C19 as stated: when extraction yields no operations storage is unchanged,
\* stored_memories stays unset and the outgoing request is left unchanged.
C19_EmptyListIsNoOp ==
    [][EmptyExtractionReturn =>
          /\ Memories' = obs.Memories0 /\ nextId' = nextId
          /\ stored_memories' = NoStored
          /\ ret'.body_out = ret'.body_in]_vars

\* C19 as amended: when extraction yields no operations no storage call is
\* made, storage and the id generator are unchanged, stored_memories stays
\* unset, and the outgoing request differs from the incoming one by nothing
\* but the relevant memories that relevance retrieval returned.
C19_EmptyListTouchesNoStorage ==
    [][EmptyExtractionReturn =>
          /\ calls = <<>> /\ idx = 0
          /\ Memories' = obs.Memories0 /\ nextId' = nextId
          /\ stored_memories = NoStored /\ stored_memories' = NoStored
          /\ OnlyRelevantSpliced(ret'.body_in, ret'.body_out, relevant_memories)]_vars

\* C19 witness: the model answered with the empty array and inlet is about
\* to return without having called storage.
C19_Witness ==
    /\ pc = "update"
    /\ obs.identified /\ valves.model # ""
    /\ IsArrayAnswer(obs.completion) /\ ModelArray = <<>>
    /\ memories = <<>>

----------------------------------------------------------------------------
(* Properties of the confirmation of outlet (checked under Spec). *)

\* the step being taken is a call of outlet
OutletStep == pc = "idle" /\ ret'.hook = "outlet" /\ ret' # ret

\* the text that lists the content of every NEW and UPDATE of ops, no DELETE
SummaryText(ops) ==
    LET listed == SelectSeq(ops, LAMBDA d : d.operation \in {"NEW", "UPDATE"})
    IN <<"I've stored the following information in my memory:\n">>
       \o Join([k \in 1..Len(listed) |->
                   <<"- ">> \o (IF listed[k].content.some THEN listed[k].content.v
                                ELSE <<"None">>) \o <<"\n">>], <<>>)

\* the outlet call being made appends one message to the messages it was given
Appends == Len(ret'.body_out.messages) = Len(ret'.body_in.messages) + 1

\* C16: outlet appends exactly one assistant message if and only if
\* operations were stored during the preceding inlet; the message lists the
\* content of every NEW and UPDATE and of no DELETE, and the stored record is
\* cleared; with nothing stored the body is returned unchanged.
C16_OutletSummarisesStored ==
    [][(OutletStep /\ ret.hook = "inlet") =>
          /\ Appends <=> ret.applied # {}
          /\ Appends =>
                /\ ret'.body_out.messages =
                       Append(ret'.body_in.messages, Msg("assistant", SummaryText(ret.extracted)))
                /\ stored_memories' = NoStored
          /\ ~Appends => ret'.body_out = ret'.body_in]_vars

----------------------------------------------------------------------------
(* Properties of the guards of the hooks. *)

\* the user-authored messages of a body
user_messages(b) == SelectSeq(b.messages, LAMBDA m : m.role = "user")

\* user_messages[-1]["content"]
LatestUserContent(b) == user_messages(b)[Len(user_messages(b))].content

\* the request b holds a user message and the latest of them is empty
LatestUserEmpty(b) ==
    b.kind = "dict" /\ b.has_messages /\ user_messages(b) # <<>> /\ LatestUserContent(b) = <<>>

\* C21: when the latest user message of the request is empty, inlet makes no
\* completion call and no storage call, leaves storage as it was and returns
\* the body unchanged (checked under SpecLatest).
C21_EmptyMessageSkipsProcessing ==
    /\ (pc # "idle" /\ LatestUserEmpty(obs.body0)) =>
           /\ obs.completion_calls = 0
           /\ calls = <<>>
           /\ Memories = obs.Memories0
    /\ (ret.hook = "inlet" /\ LatestUserEmpty(ret.body_in)) => ret.body_out = ret.body_in

\* C22: with valves.enabled false neither hook modifies the body, calls the
\* completion endpoint or mutates storage (checked under Spec, whose valves
\* stay as the host loaded them).
C22_DisabledFilterDoesNothing ==
    ~valves.enabled =>
        /\ obs.completion_calls = 0
        /\ calls = <<>>
        /\ Memories = InitMemories /\ nextId = 1
        /\ ret.hook # "none" => ret.body_out = ret.body_in

----------------------------------------------------------------------------
(* Properties of the ownership of records (checked under SpecBatch). *)

\* C23: applying operations on behalf of the acting user removes no record
\* that another user owns: whatever ids the model returns, every record of
\* another user that was stored when inlet was called is still stored.
C23_OtherUsersRecordsKept ==
    (pc # "idle" /\ user.some) =>
        \A i \in DOMAIN obs.Memories0 :
            obs.Memories0[i].user_id # user.v =>
                i \in DOMAIN Memories /\ Memories[i] = obs.Memories0[i]

----------------------------------------------------------------------------
(* Further properties of the confirmation of outlet (checked under Spec). *)

\* C24: every content the confirmation of outlet lists belongs to an
\* operation the preceding inlet applied with a successful insert; an
\* operation that was skipped as invalid, that failed or was not reached
\* after a storage exception, or that was not applied because the user
\* lookup found no user, is not announced.
C24_AnnouncedWereInserted ==
    [][(OutletStep /\ ret.hook = "inlet" /\ Appends) =>
          /\ stored_memories.v = ret.extracted
          /\ \A k \in 1..Len(ret.extracted) :
                 ret.extracted[k].operation \in {"NEW", "UPDATE"} => k \in ret.applied]_vars

----------------------------------------------------------------------------
(* Properties of turns that overlap on one instance (checked under SpecShared). *)

\* the step being taken is the outlet of the turn whose inlet returned last in
\* that turn, for the same user
OwnOutletStep ==
    OutletStep /\ suspended' = suspended /\ ret.hook = "inlet" /\ ret'.user_arg = ret.user_arg

\* C25: when the turns of two users interleave on one shared Filter instance,
\* the outlet of a turn appends no summary but that of the operations its own
\* inlet extracted, and it does append that summary whenever its inlet
\* extracted operations.
C25_InterleavedTurnsKeepOwnSummary ==
    [][OwnOutletStep =>
          /\ Appends => ret'.body_out.messages
                            = Append(ret'.body_in.messages,
                                     Msg("assistant", SummaryText(ret.extracted)))
          /\ ret.extracted # <<>> => Appends]_vars

----------------------------------------------------------------------------
(* Further properties of _execute_memory_operation (checked under SpecBatch). *)

\* what an UPDATE whose id names no stored record does
UpdateUnknownStep ==
    (HandlesValid("UPDATE") /\ ItemId(memories[idx]).v \notin DOMAIN Memories) =>
        /\ Memories' = Memories
        /\ nextId' = nextId
        /\ \A k \in 1..Len(NewCalls) : NewCalls[k].fn \notin {"delete", "insert"}

\* C26: an UPDATE whose id names no stored record leaves storage unchanged:
\* no record is deleted and no record is inserted.
C26_UpdateUnknownIdIsNoOp == [][UpdateUnknownStep]_vars

----------------------------------------------------------------------------
(* Properties of Action.action (checked under SpecEmit): what a call made   *)
(* in the current state comes to, for every input of the call.              *)

\* the __user__ values Action.action is called with
ActionUsers == {NoUser, UserWithoutId, U1, Ghost}

\* the host's insert fails for the call: it raises, or no id is left
InsertFails(insert_raises) == insert_raises \/ nextId > Len(FreshIds)

\* the status events among the events evs, in order
StatusEvents(evs) == SelectSeq(evs, LAMBDA e : e.type = "status")

\* C27: with show_status and an emitter that works, Action.action emits
\* 'Adding to Memories' (done false) first, before the insert; when the
\* insert fails, 'Memory Saved' is not emitted and the last status event of
\* the call is 'Error Adding Memory'.
C27_StatusOrderedAndTruthful ==
    \A b \in EmitBodies, insert_raises \in BOOLEAN, summary \in Summaries :
        LET r == Action_action(Memories, nextId, Action_valves, b, U1, TRUE, TRUE, {},
                               insert_raises, summary)
            statuses == StatusEvents(r.emitted)
        IN r.value = "body" =>
              /\ r.emitted[1] = StatusEvent("Adding to Memories", FALSE)
              /\ InsertFails(insert_raises) =>
                    /\ \A k \in 1..Len(r.emitted) :
                           r.emitted[k] # StatusEvent("Memory Saved", TRUE)
                    /\ statuses[Len(statuses)] = StatusEvent("Error Adding Memory", TRUE)

\* C28: with an emitter that works Action.action raises for no body whose
\* message list is non-empty, a list of one message included; and it returns
\* None, inserts nothing and emits nothing when the action is disabled, the
\* user or its id is missing, the emitter is absent, or the message list is
\* missing or empty.
C28_ActionNeverRaises ==
    \A b \in EmitBodies, u \in ActionUsers, show_status \in BOOLEAN, has_emitter \in BOOLEAN,
       insert_raises \in BOOLEAN, summary \in Summaries :
        LET r == Action_action(Memories, nextId, Action_valves, b, u, show_status,
                               has_emitter, {}, insert_raises, summary)
        IN /\ b.messages # <<>> => r.result = "returned"
           /\ (\/ ~Action_valves.enabled
               \/ ~u.given \/ ~u.has_id
               \/ ~has_emitter
               \/ ~b.has_messages \/ b.messages = <<>>) =>
                  /\ r.result = "returned" /\ r.value = "None"
                  /\ r.M = Memories /\ r.n = nextId
                  /\ r.emitted = <<>>

\* the last k messages, in their order
LastMessages(messages, k) == SubSeq(messages, Len(messages) - k + 1, Len(messages))

\* C29: the window of messages Action.action appends to the memory it stores
\* is the last min(history_length, len(messages)) messages in original
\* order, so at most history_length of them, for a history_length of 0 too.
C29_WindowHoldsAtMostHistoryLength ==
    \A b \in EmitBodies, summary \in Summaries :
        LET r == Action_action(Memories, nextId, Action_valves, b, U1, FALSE, TRUE, {},
                               FALSE, summary)
            h == Action_valves.history_length
            k == IF h < Len(b.messages) THEN h ELSE Len(b.messages)
        IN (r.value = "body" /\ r.n = nextId + 1) =>
              r.M[FreshIds[nextId]].content
                  = memory_content(b.messages, LastMessages(b.messages, k),
                                   IF Action_valves.openai_api_key # "" THEN summary ELSE <<>>)

----------------------------------------------------------------------------
(* Properties of Pipe.pipe (checked under SpecPipe). *)

\* C30: on an instance configured with thinking_depth 'auto' the override of
\* the valve is temporary: whenever a call of pipe has returned, the valve is
\* 'auto' again, so the next call determines the depth from its own messages.
C30_AutoDepthRestored ==
    (entry.point = "pipe" /\ entry.result = "returned") =>
        Pipe_valves.v.thinking_depth = "auto"

=============================================================================
